---- MODULE Spec2Model ----
(***************************************************************************)
(* A model of the parser combinators of rparsercom (src/src/main.rs).      *)
(*                                                                         *)
(* A &str is modelled as what it is: a sequence of UTF-8 bytes.  A char is *)
(* a scalar value; encode_utf8 gives its bytes.  Slicing is by byte index, *)
(* as in Rust.  A parser is a closure: a record naming the function that   *)
(* built it and holding what it captured; parse runs the closure's body.   *)
(* A ParseResult is Ok(remaining input, value) or Err(input).              *)
(***************************************************************************)
EXTENDS Naturals, Sequences, FiniteSets

VARIABLES text, callee, pc, loop_input, loop_result, turn, ret

vars == <<text, callee, pc, loop_input, loop_result, turn, ret>>

(* ------------------------------ bounds -------------------------------- *)

\* Inputs are all strings of at most MaxLen scalar values over Chars ...
MaxLen == 3
\* ... and all concatenations of at most MaxFrags markup fragments.
MaxFrags == 2

(* ------------------------- chars and strings --------------------------- *)

\* The scalar values of the model: a letter, a digit, the hyphen, a space,
\* the double quote, '=', '<', and a two-byte letter (U+00E9).
Chars == {"a", "1", "-", " ", "\"", "=", "<", "U+E9"}

\* char::encode_utf8 / String::push: the bytes of one scalar value.
encode_utf8(c) == IF c = "U+E9" THEN <<"xC3", "xA9">> ELSE <<c>>

\* char::len_utf8
len_utf8(c) == Len(encode_utf8(c))

\* char::is_alphabetic
is_alphabetic(c) == c \in {"a", "U+E9"}

\* char::is_alphanumeric
is_alphanumeric(c) == c \in {"a", "U+E9", "1"}

\* char::is_whitespace
is_whitespace(c) == c = " "

\* A UTF-8 continuation byte (10xxxxxx).
is_continuation(b) == b = "xA9"

\* str::is_char_boundary
is_char_boundary(s, index) ==
    \/ index = 0
    \/ index = Len(s)
    \/ index < Len(s) /\ ~is_continuation(s[index + 1])

Some(c) == [some |-> TRUE, v |-> c]
None == [some |-> FALSE]

\* input.get(0..end): None when end is out of range or inside a scalar value.
get_to(s, end) ==
    IF end <= Len(s) /\ is_char_boundary(s, end)
    THEN Some(SubSeq(s, 1, end))
    ELSE None

\* What a slice at a byte index inside a scalar value does: it panics.
PANIC == <<"panic">>

\* &input[begin..]
slice_from(s, begin) ==
    IF begin <= Len(s) /\ is_char_boundary(s, begin)
    THEN SubSeq(s, begin + 1, Len(s))
    ELSE PANIC

\* Chars::next on the iterator whose remaining bytes are s: the next scalar
\* value (decoded from its bytes), if any.
chars_next(s) ==
    IF s = <<>> THEN None
    ELSE IF s[1] = "xC3" THEN Some("U+E9")
    ELSE Some(s[1])

\* The iterator after Chars::next returned c.
chars_rest(s, c) == SubSeq(s, len_utf8(c) + 1, Len(s))

\* chars.into_iter().collect::<String>(): the bytes of the chars, in order.
RECURSIVE collect(_)
collect(chars) ==
    IF chars = <<>> THEN <<>>
    ELSE encode_utf8(Head(chars)) \o collect(Tail(chars))

(* ---------------------------- ParseResult ------------------------------ *)

Ok(next_input, value) == [ok |-> TRUE, rem |-> next_input, val |-> value]
Err(input) == [ok |-> FALSE, rem |-> input]

\* Output values, each tagged with its Rust type: (), char, String, Vec<_>
\* and (_, _).
Unit == [unit |-> TRUE]
CharV(c) == [char |-> c]
StringV(bytes) == [string |-> bytes]
VecV(items) == [vec |-> items]
TupleV(first, second) == [tuple |-> <<first, second>>]

(* ----------------------- closures: constructors ------------------------ *)

match_literal(expected) == [expected |-> expected, op |-> "match_literal"]
identifier_fn == [op |-> "identifier"]
any_char_fn == [op |-> "any_char"]
pair(parser1, parser2) == [op |-> "pair", parser1 |-> parser1, parser2 |-> parser2]
map(parser, map_fn) == [op |-> "map", parser |-> parser, map_fn |-> map_fn]
left(parser1, parser2) == map(pair(parser1, parser2), "left")
right(parser1, parser2) == map(pair(parser1, parser2), "right")
one_or_more(parser) == [op |-> "one_or_more", parser |-> parser]
zero_or_more(parser) == [op |-> "zero_or_more", parser |-> parser]
pred(parser, predicate) == [op |-> "pred", parser |-> parser, predicate |-> predicate]

\* The closures handed to map in the source.
apply_map_fn(map_fn, value) ==
    CASE map_fn = "left" -> value.tuple[1]
      [] map_fn = "right" -> value.tuple[2]
      [] map_fn = "collect" ->
             StringV(collect([k \in 1..Len(value.vec) |-> value.vec[k].char]))

\* The closures handed to pred in the source and its tests ("is_a" stands
\* for the test's |c| *c == 'o', on a letter of Chars).
apply_predicate(predicate, value) ==
    CASE predicate = "is_whitespace" -> is_whitespace(value.char)
      [] predicate = "not_quote" -> value.char /= "\""
      [] predicate = "is_a" -> value.char = "a"

(* ------------------------ closures: their bodies ----------------------- *)

RECURSIVE parse(_, _), pair_closure(_, _, _), map_closure(_, _, _)
RECURSIVE while_let(_, _, _), one_or_more_closure(_, _)
RECURSIVE zero_or_more_closure(_, _), pred_closure(_, _, _)

\* match_literal without the guard `if next == expected`.
match_literal_closure_nocompare(expected, input) ==
    LET next == get_to(input, Len(expected)) IN
    IF next.some
    THEN Ok(slice_from(input, Len(expected)), Unit)
    ELSE Err(input)

match_literal_closure(expected, input) ==
    LET next == get_to(input, Len(expected)) IN
    IF next.some /\ next.v = expected
    THEN Ok(slice_from(input, Len(expected)), Unit)
    ELSE Err(input)

\* The while loop of identifier: chars is the iterator's remaining bytes.
RECURSIVE identifier_while(_, _)
identifier_while(chars, matched) ==
    LET next == chars_next(chars) IN
    IF next.some /\ (is_alphanumeric(next.v) \/ next.v = "-")
    THEN identifier_while(chars_rest(chars, next.v), matched \o encode_utf8(next.v))
    ELSE matched

\* identifier returning the matched part of the input, &input[..next_index],
\* as the remaining input.
identifier_returns_matched(input) ==
    LET first == chars_next(input) IN
    IF first.some /\ is_alphabetic(first.v)
    THEN LET matched == identifier_while(chars_rest(input, first.v),
                                         encode_utf8(first.v))
             next_index == Len(matched)
         IN  Ok(SubSeq(input, 1, next_index), StringV(matched))
    ELSE Err(input)

\* identifier accepting any alphanumeric first character.
identifier_alnum_first(input) ==
    LET first == chars_next(input) IN
    IF first.some /\ is_alphanumeric(first.v)
    THEN LET matched == identifier_while(chars_rest(input, first.v),
                                         encode_utf8(first.v))
             next_index == Len(matched)
         IN  Ok(slice_from(input, next_index), StringV(matched))
    ELSE Err(input)

identifier(input) ==
    LET first == chars_next(input) IN
    IF first.some /\ is_alphabetic(first.v)
    THEN LET matched == identifier_while(chars_rest(input, first.v),
                                         encode_utf8(first.v))
             next_index == Len(matched)
         IN  Ok(slice_from(input, next_index), StringV(matched))
    ELSE Err(input)

any_char(input) ==
    LET next == chars_next(input) IN
    IF next.some
    THEN Ok(slice_from(input, len_utf8(next.v)), CharV(next.v))
    ELSE Err(input)

\* pair restoring its own input when parser2 fails.
pair_closure_backtrack(parser1, parser2, input) ==
    LET r1 == parse(parser1, input) IN
    IF r1.ok
    THEN LET r2 == parse(parser2, r1.rem) IN
         IF r2.ok THEN Ok(r2.rem, TupleV(r1.val, r2.val)) ELSE Err(input)
    ELSE r1

pair_closure(parser1, parser2, input) ==
    LET r1 == parse(parser1, input) IN
    IF r1.ok
    THEN LET r2 == parse(parser2, r1.rem) IN
         IF r2.ok THEN Ok(r2.rem, TupleV(r1.val, r2.val)) ELSE r2
    ELSE r1

map_closure(parser, map_fn, input) ==
    LET r == parse(parser, input) IN
    IF r.ok THEN Ok(r.rem, apply_map_fn(map_fn, r.val)) ELSE r

\* while let Ok((next_input, next_item)) = parser.parse(input) { ... }
\* followed by return Ok((input, result)).
while_let(parser, input, result) ==
    LET r == parse(parser, input) IN
    IF r.ok
    THEN while_let(parser, r.rem, Append(result, r.val))
    ELSE Ok(input, VecV(result))

one_or_more_closure(parser, input) ==
    LET first == parse(parser, input) IN
    IF first.ok
    THEN while_let(parser, first.rem, <<first.val>>)
    ELSE Err(input)

\* zero_or_more returning what the failed last attempt left, not the input
\* that attempt was given.
zero_or_more_closure_norestore(parser, input) ==
    LET r == while_let(parser, input, <<>>) IN
    Ok(parse(parser, r.rem).rem, r.val)

zero_or_more_closure(parser, input) == while_let(parser, input, <<>>)

\* pred failing with the parser's remainder when the predicate is false.
pred_closure_norollback(parser, predicate, input) ==
    LET r == parse(parser, input) IN
    IF r.ok /\ apply_predicate(predicate, r.val)
    THEN Ok(r.rem, r.val)
    ELSE Err(r.rem)

pred_closure(parser, predicate, input) ==
    LET r == parse(parser, input) IN
    IF r.ok /\ apply_predicate(predicate, r.val)
    THEN Ok(r.rem, r.val)
    ELSE Err(input)

\* Parser::parse for a closure: self(input).
parse(p, input) ==
    CASE p.op = "match_literal" -> match_literal_closure(p.expected, input)
      [] p.op = "identifier" -> identifier(input)
      [] p.op = "any_char" -> any_char(input)
      [] p.op = "pair" -> pair_closure(p.parser1, p.parser2, input)
      [] p.op = "map" -> map_closure(p.parser, p.map_fn, input)
      [] p.op = "one_or_more" -> one_or_more_closure(p.parser, input)
      [] p.op = "zero_or_more" -> zero_or_more_closure(p.parser, input)
      [] p.op = "pred" -> pred_closure(p.parser, p.predicate, input)

(* -------------------- derived parsers and the grammar ------------------ *)

whitespace_char == pred(any_char_fn, "is_whitespace")
one_or_more_space == one_or_more(whitespace_char)
zero_or_more_space == zero_or_more(whitespace_char)

\* quoted_string without the closing quote.
quoted_string_noclose ==
    map(right(match_literal(<<"\"">>),
              zero_or_more(pred(any_char_fn, "not_quote"))),
        "collect")

quoted_string ==
    map(right(match_literal(<<"\"">>),
              left(zero_or_more(pred(any_char_fn, "not_quote")),
                   match_literal(<<"\"">>))),
        "collect")

attribute_pair == pair(identifier_fn, right(match_literal(<<"=">>), quoted_string))
attributes == zero_or_more(right(one_or_more_space, attribute_pair))
element_start == right(match_literal(<<"<">>), pair(identifier_fn, attributes))

(* ------------------------------ the inputs ----------------------------- *)

\* All sequences of at most n elements of S.
SeqsUpTo(S, n) == UNION {[1..k -> S] : k \in 0..n}

RECURSIVE Flatten(_)
Flatten(ss) == IF ss = <<>> THEN <<>> ELSE Head(ss) \o Flatten(Tail(ss))

\* Pieces of markup: two complete attributes, a dangling attribute name, a
\* dangling '=', an opening tag, a quoted string and a lone space.
Fragments ==
    { collect(<<" ", "a", "=", "\"", "1", "\"">>),
      collect(<<" ", " ", "U+E9", "-", "1", "=", "\"", "\"">>),
      collect(<<" ", "a">>),
      collect(<<"=", "\"">>),
      collect(<<"<", "a">>),
      collect(<<"\"", "a", " ", "1", "\"">>),
      collect(<<" ">>) }

Inputs ==
    {collect(cs) : cs \in SeqsUpTo(Chars, MaxLen)}
        \cup {Flatten(fs) : fs \in SeqsUpTo(Fragments, MaxFrags)}

\* The literals match_literal is built with.
Literals == {collect(cs) : cs \in SeqsUpTo({"a", "<", "U+E9"}, 2)}

\* The parsers handed to pair, left and right.
SubParsers ==
    { match_literal(<<"<">>), identifier_fn, any_char_fn,
      zero_or_more(match_literal(<<"a">>)) }

\* The char-valued parsers handed to pred, and the predicates.
CharParsers == { any_char_fn, right(match_literal(<<"<">>), any_char_fn) }
Predicates == {"is_whitespace", "not_quote", "is_a"}

\* The parsers and value transforms handed to map.
MapArgs ==
    { <<zero_or_more(any_char_fn), "collect">>,
      <<pair(any_char_fn, identifier_fn), "left">>,
      <<pair(any_char_fn, identifier_fn), "right">> }

\* The parsers handed to one_or_more and zero_or_more: some consume on every
\* success, match_literal("") and zero_or_more(..) can succeed on nothing.
RepParsers ==
    { match_literal(<<"a">>), match_literal(<<>>), any_char_fn, identifier_fn,
      whitespace_char, zero_or_more(match_literal(<<"a">>)),
      right(match_literal(<<"<">>), identifier_fn) }

(* --------------------------- the state machine ------------------------- *)

NoParser == [op |-> "none"]
NoResult == [ok |-> FALSE, rem |-> <<>>, none |-> TRUE]

Init ==
    /\ text \in Inputs
    /\ callee = NoParser
    /\ pc = "idle"
    /\ loop_input = <<>>
    /\ loop_result = <<>>
    /\ turn = 0
    /\ ret = NoResult

\* p.parse(text) for a parser whose body is run in one step.
Call(p) ==
    /\ pc = "idle"
    /\ callee' = p
    /\ ret' = parse(p, text)
    /\ pc' = "done"
    /\ UNCHANGED <<text, loop_input, loop_result, turn>>

MatchLiteralCall(expected) == Call(match_literal(expected))
IdentifierCall == Call(identifier_fn)
AnyCharCall == Call(any_char_fn)
PairCall(parser1, parser2) == Call(pair(parser1, parser2))
MapCall(parser, map_fn) == Call(map(parser, map_fn))
LeftCall(parser1, parser2) == Call(left(parser1, parser2))
RightCall(parser1, parser2) == Call(right(parser1, parser2))
PredCall(parser, predicate) == Call(pred(parser, predicate))
WhitespaceCharCall == Call(whitespace_char)
OneOrMoreSpaceCall == Call(one_or_more_space)
ZeroOrMoreSpaceCall == Call(zero_or_more_space)
QuotedStringCall == Call(quoted_string)
AttributePairCall == Call(attribute_pair)
AttributesCall == Call(attributes)
ElementStartCall == Call(element_start)

\* result.push(item).  The model stops recording items once the Vec holds
\* more than Len(text) of them: a loop whose every iteration consumes input
\* pushes at most Len(text), so only a loop that no longer advances gets there.
push(result, item) ==
    IF Len(result) <= Len(text) THEN Append(result, item) ELSE result

\* one_or_more passing on the parser's own failure.
OneOrMoreBeginKeepsFailure(parser) ==
    /\ pc = "idle"
    /\ callee' = one_or_more(parser)
    /\ LET first == parse(parser, text) IN
       IF first.ok
       THEN /\ loop_input' = first.rem
            /\ loop_result' = push(<<>>, first.val)
            /\ pc' = "loop"
            /\ ret' = ret
       ELSE /\ ret' = first
            /\ pc' = "done"
            /\ UNCHANGED <<loop_input, loop_result>>
    /\ UNCHANGED <<text, turn>>

\* one_or_more(parser).parse(text), up to its while loop: the first
\* application of parser, and the early return when it fails.
OneOrMoreBegin(parser) ==
    /\ pc = "idle"
    /\ callee' = one_or_more(parser)
    /\ LET first == parse(parser, text) IN
       IF first.ok
       THEN /\ loop_input' = first.rem
            /\ loop_result' = push(<<>>, first.val)
            /\ pc' = "loop"
            /\ ret' = ret
       ELSE /\ ret' = Err(text)
            /\ pc' = "done"
            /\ UNCHANGED <<loop_input, loop_result>>
    /\ UNCHANGED <<text, turn>>

\* zero_or_more(parser).parse(text), up to its while loop.
ZeroOrMoreBegin(parser) ==
    /\ pc = "idle"
    /\ callee' = zero_or_more(parser)
    /\ loop_input' = text
    /\ loop_result' = <<>>
    /\ pc' = "loop"
    /\ UNCHANGED <<text, turn, ret>>

\* One iteration of the while loop of one_or_more / zero_or_more: the
\* parser succeeded on the loop's input.  turn is the number of iterations
\* so far, kept modulo 2.
LoopIter ==
    /\ pc = "loop"
    /\ LET r == parse(callee.parser, loop_input) IN
       /\ r.ok
       /\ loop_input' = r.rem
       /\ loop_result' = push(loop_result, r.val)
    /\ turn' = 1 - turn
    /\ UNCHANGED <<text, callee, pc, ret>>

\* The loop's exit failing when nothing was collected.
LoopExitFailsOnEmpty ==
    /\ pc = "loop"
    /\ ~parse(callee.parser, loop_input).ok
    /\ ret' = IF loop_result = <<>> THEN Err(loop_input)
              ELSE Ok(loop_input, VecV(loop_result))
    /\ pc' = "done"
    /\ UNCHANGED <<text, callee, loop_input, loop_result, turn>>

\* The while loop ends: the parser failed, and the closure returns
\* Ok((input, result)).
LoopExit ==
    /\ pc = "loop"
    /\ ~parse(callee.parser, loop_input).ok
    /\ ret' = Ok(loop_input, VecV(loop_result))
    /\ pc' = "done"
    /\ UNCHANGED <<text, callee, loop_input, loop_result, turn>>

Next ==
    \/ \E expected \in Literals : MatchLiteralCall(expected)
    \/ IdentifierCall
    \/ AnyCharCall
    \/ \E parser1 \in SubParsers, parser2 \in SubParsers : PairCall(parser1, parser2)
    \/ \E a \in MapArgs : MapCall(a[1], a[2])
    \/ \E parser1 \in SubParsers, parser2 \in SubParsers : LeftCall(parser1, parser2)
    \/ \E parser1 \in SubParsers, parser2 \in SubParsers : RightCall(parser1, parser2)
    \/ \E parser \in CharParsers, predicate \in Predicates : PredCall(parser, predicate)
    \/ WhitespaceCharCall
    \/ OneOrMoreSpaceCall
    \/ ZeroOrMoreSpaceCall
    \/ QuotedStringCall
    \/ AttributePairCall
    \/ AttributesCall
    \/ ElementStartCall
    \/ \E parser \in RepParsers : OneOrMoreBegin(parser)
    \/ \E parser \in RepParsers : ZeroOrMoreBegin(parser)
    \/ LoopIter
    \/ LoopExit

Spec == Init /\ [][Next]_vars

\* The closure body runs to its return: a step that can be taken is taken.
FairSpec == Spec /\ WF_vars(Next)

(* ------------------------------ properties ----------------------------- *)

IsSuffix(s, t) == \E k \in 0..Len(t) : s = SubSeq(t, k + 1, Len(t))

StartsWith(s, prefix) ==
    Len(prefix) <= Len(s) /\ SubSeq(s, 1, Len(prefix)) = prefix

\* str::chars: the scalar values of a string, in order.
RECURSIVE chars_of(_)
chars_of(s) ==
    IF s = <<>> THEN <<>>
    ELSE LET c == chars_next(s).v IN <<c>> \o chars_of(chars_rest(s, c))

Returned == pc = "done"

\* The loop run step by step returns what the closure body, run in one
\* step, returns.
LoopMatchesClosure ==
    Returned /\ callee.op \in {"one_or_more", "zero_or_more"} =>
        ret = parse(callee, text)

\* No slice of the source is taken at an index inside a scalar value.
NeverPanics ==
    /\ loop_input /= PANIC
    /\ Returned => ret.rem /= PANIC

\* C1: whatever parser is called on whatever input, the remaining input of a
\* Success and the input of a Failure are suffixes of the input of the call.
RemainderIsSuffix == Returned => IsSuffix(ret.rem, text)

\* A call failed with a proper, non-empty suffix of its input.
RemainderIsSuffixWitness ==
    Returned /\ ~ret.ok /\ ret.rem /= text /\ ret.rem /= <<>>

\* What pair(parser1, parser2) returns on input, stated from the results of
\* its two parsers; keep picks the value kept.
PairOutcome(parser1, parser2, input, keep) ==
    LET r1 == parse(parser1, input) IN
    IF ~r1.ok THEN r1
    ELSE LET r2 == parse(parser2, r1.rem) IN
         IF ~r2.ok THEN r2
         ELSE Ok(r2.rem, CASE keep = "both" -> TupleV(r1.val, r2.val)
                           [] keep = "left" -> r1.val
                           [] keep = "right" -> r2.val)

IsLeftOrRight(p) ==
    p.op = "map" /\ p.map_fn \in {"left", "right"} /\ p.parser.op = "pair"

\* C2: pair fails with parser1's failure, or with parser2's failure on what
\* parser1 left (no backtracking), or succeeds with both values and what
\* parser2 left; left and right do the same and keep one value.
PairDoesNotBacktrack ==
    /\ Returned /\ callee.op = "pair" =>
           ret = PairOutcome(callee.parser1, callee.parser2, text, "both")
    /\ Returned /\ IsLeftOrRight(callee) =>
           ret = PairOutcome(callee.parser.parser1, callee.parser.parser2,
                             text, callee.map_fn)

\* pair(match_literal("<"), identifier) consumed the '<' and failed with what
\* follows it.
PairDoesNotBacktrackWitness ==
    /\ Returned
    /\ callee = pair(match_literal(<<"<">>), identifier_fn)
    /\ Len(text) >= 2 /\ text[1] = "<"
    /\ ret = Err(Tail(text))

\* C3: pred(p, f) fails with exactly its own input when p fails or f rejects
\* p's value, and returns p's success when f accepts the value.
PredRollsBack ==
    Returned /\ callee.op = "pred" =>
        LET r == parse(callee.parser, text) IN
        IF r.ok /\ apply_predicate(callee.predicate, r.val)
        THEN ret = Ok(r.rem, r.val)
        ELSE ret = Err(text)

\* The parser consumed input, the predicate rejected its value, and pred
\* failed with the input it was given.
PredRollsBackWitness ==
    /\ Returned /\ callee.op = "pred"
    /\ LET r == parse(callee.parser, text) IN
       /\ r.ok /\ r.rem /= text
       /\ ~apply_predicate(callee.predicate, r.val)
    /\ ret = Err(text)

\* C4: zero_or_more(p) returns Success whenever it returns, and the empty
\* sequence with the input unchanged when p fails on its first application.
ZeroOrMoreNeverFails ==
    Returned /\ callee.op = "zero_or_more" =>
        /\ ret.ok
        /\ ~parse(callee.parser, text).ok => ret = Ok(text, VecV(<<>>))

\* zero_or_more returned on a non-empty input its parser rejects.
ZeroOrMoreNeverFailsWitness ==
    /\ Returned /\ callee.op = "zero_or_more"
    /\ text /= <<>>
    /\ ~parse(callee.parser, text).ok
    /\ ret = Ok(text, VecV(<<>>))

\* C5: every call returns: one_or_more(p) and zero_or_more(p) terminate for
\* every p, also one that can succeed without consuming input.
EveryCallReturns == <>Returned

\* The input handed to the j-th consecutive application of p, starting at
\* input.
RECURSIVE NthInput(_, _, _)
NthInput(p, input, j) ==
    IF j = 1 THEN input ELSE parse(p, NthInput(p, input, j - 1)).rem

\* C6: one_or_more(p) succeeds iff p succeeds on the input; it then returns
\* the values of the consecutive successful applications of p, in order, and
\* the input of the first failing one; when the first application fails it
\* fails with the input of the call.
OneOrMoreCollects ==
    Returned /\ callee.op = "one_or_more" =>
        LET p == callee.parser
            first == parse(p, text)
        IN  /\ ret.ok <=> first.ok
            /\ ~first.ok => ret = Err(text)
            /\ ret.ok =>
                 LET n == Len(ret.val.vec) IN
                 /\ n >= 1
                 /\ \A j \in 1..n :
                        LET r == parse(p, NthInput(p, text, j)) IN
                        r.ok /\ r.val = ret.val.vec[j]
                 /\ ~parse(p, NthInput(p, text, n + 1)).ok
                 /\ ret.rem = NthInput(p, text, n + 1)

\* one_or_more collected at least two values and stopped before the end of
\* the input.
OneOrMoreCollectsWitness ==
    /\ Returned /\ callee.op = "one_or_more"
    /\ ret.ok /\ Len(ret.val.vec) >= 2 /\ ret.rem /= <<>>

\* C7: match_literal(e) succeeds with what follows e iff the input starts
\* with e, and otherwise fails with the input unchanged.
MatchLiteralIsPrefixTest ==
    Returned /\ callee.op = "match_literal" =>
        LET e == callee.expected IN
        IF StartsWith(text, e)
        THEN ret = Ok(SubSeq(text, Len(e) + 1, Len(text)), Unit)
        ELSE ret = Err(text)

\* A non-empty literal matched and left a non-empty remainder.
MatchLiteralIsPrefixTestWitness ==
    /\ Returned /\ callee.op = "match_literal"
    /\ callee.expected /= <<>>
    /\ ret.ok /\ ret.rem /= <<>>

IsIdentifierChar(c) == is_alphanumeric(c) \/ c = "-"

\* C8: identifier fails, with the input unchanged, iff the input is empty or
\* its first character is not alphabetic; otherwise the input is the value
\* followed by the remainder, the value is an alphabetic character followed by
\* alphanumeric-or-hyphen characters, and the remainder does not start with
\* such a character.
IdentifierIsMaximalRun ==
    Returned /\ callee.op = "identifier" =>
        LET cs == chars_of(text) IN
        /\ ~ret.ok <=> (cs = <<>> \/ ~is_alphabetic(cs[1]))
        /\ ~ret.ok => ret = Err(text)
        /\ ret.ok =>
             LET m == chars_of(ret.val.string)
                 r == chars_of(ret.rem)
             IN  /\ text = ret.val.string \o ret.rem
                 /\ m /= <<>> /\ is_alphabetic(m[1])
                 /\ \A k \in 2..Len(m) : IsIdentifierChar(m[k])
                 /\ r = <<>> \/ ~IsIdentifierChar(r[1])

\* identifier matched several characters and stopped before the end of the
\* input.
IdentifierIsMaximalRunWitness ==
    /\ Returned /\ callee.op = "identifier"
    /\ ret.ok /\ Len(chars_of(ret.val.string)) >= 2 /\ ret.rem /= <<>>

\* cs is: one or more whitespace characters, a name, '=', a double quote,
\* characters other than the double quote, a double quote; w is the number
\* of whitespace characters and e the position of the '='.
IsAttributeItem(cs, w, e) ==
    /\ 1 <= w /\ w + 1 < e /\ e + 2 <= Len(cs)
    /\ \A k \in 1..w : is_whitespace(cs[k])
    /\ is_alphabetic(cs[w + 1])
    /\ \A k \in (w + 2)..(e - 1) : IsIdentifierChar(cs[k])
    /\ cs[e] = "="
    /\ cs[e + 1] = "\""
    /\ cs[Len(cs)] = "\""
    /\ \A k \in (e + 2)..(Len(cs) - 1) : cs[k] /= "\""

\* The <<n, w, e>> for which the first n characters of cs are an attribute
\* item.
ItemPrefixes(cs) ==
    {t \in (1..Len(cs)) \X (1..Len(cs)) \X (1..Len(cs)) :
        IsAttributeItem(SubSeq(cs, 1, t[1]), t[2], t[3])}

\* The (name, value) pairs of the maximal leading run of attribute items of
\* cs, and the characters that follow the run.
RECURSIVE LeadingItems(_)
LeadingItems(cs) ==
    IF ItemPrefixes(cs) = {} THEN [items |-> <<>>, rest |-> cs]
    ELSE LET t == CHOOSE x \in ItemPrefixes(cs) : TRUE
             name == SubSeq(cs, t[2] + 1, t[3] - 1)
             value == SubSeq(cs, t[3] + 2, t[1] - 1)
             more == LeadingItems(SubSeq(cs, t[1] + 1, Len(cs)))
         IN  [items |-> <<TupleV(StringV(collect(name)), StringV(collect(value)))>>
                          \o more.items,
              rest |-> more.rest]

\* C9: attributes always succeeds, with the (name, value) pairs of the
\* maximal leading run of attribute items, in order and with duplicates, and
\* with everything after the last complete item as the remainder.
AttributesIsLeadingRun ==
    Returned /\ callee = attributes =>
        LET run == LeadingItems(chars_of(text)) IN
        ret = Ok(collect(run.rest), VecV(run.items))

\* attributes collected an attribute and restored the whitespace and the
\* name that a failed further attempt had consumed.
AttributesIsLeadingRunWitness ==
    /\ Returned /\ callee = attributes
    /\ ret.ok /\ Len(ret.val.vec) >= 1
    /\ Len(ret.rem) >= 2 /\ ret.rem[1] = " " /\ ret.rem[2] = "a"

\* The positions after the first of the double quotes of s.
LaterQuotes(s) == {k \in 2..Len(s) : s[k] = "\""}

\* C10: quoted_string succeeds iff the input starts with a double quote and
\* holds a second one; the value is what lies between the opening quote and
\* the first quote after it, the remainder what follows that quote.
QuotedStringIsFirstPair ==
    Returned /\ callee = quoted_string =>
        /\ ret.ok <=> (text /= <<>> /\ text[1] = "\"" /\ LaterQuotes(text) /= {})
        /\ ret.ok =>
             LET close == CHOOSE k \in LaterQuotes(text) :
                              \A j \in LaterQuotes(text) : k <= j
             IN  /\ ret.val = StringV(SubSeq(text, 2, close - 1))
                 /\ ret.rem = SubSeq(text, close + 1, Len(text))
                 /\ \A k \in 1..Len(ret.val.string) : ret.val.string[k] /= "\""

\* quoted_string returned a non-empty value and a non-empty remainder.
QuotedStringIsFirstPairWitness ==
    /\ Returned /\ callee = quoted_string
    /\ ret.ok /\ ret.val.string /= <<>> /\ ret.rem /= <<>>

====
